---- MODULE Spec2Model ----
(***************************************************************************)
(* HCF device detector: the score ledger (OSScoreSystem), the detection    *)
(* engine (DeviceDetectionEngine) and the application shell                *)
(* (DeviceDetectorApp), as a state machine over the JavaScript event loop. *)
(*                                                                         *)
(* Strings that the code only tests with includes() are modelled as the    *)
(* set of the tested tokens they contain.  The sentinel os name of         *)
(* getTopOS (a CJK literal in the source) is written "unknown".            *)
(***************************************************************************)
EXTENDS Integers, Sequences, FiniteSets, TLC

\* ------------------------------------------------------------------ bounds
\* calls made through window.HCFDetector after page load, restarts and direct
\* engine calls together
MaxInvocations == 2

MaxObs == 3

MaxWeight == 2

\* ------------------------------------------------------- OSScoreSystem
\* Key order of the scores object literal (Object.values / Object.entries
\* enumerate string keys in insertion order).
OSOrder == <<"macOS", "Windows", "Linux", "iOS", "iPadOS", "Android">>

OSNames == {OSOrder[i] : i \in 1..Len(OSOrder)}

Unknown == "unknown"

ZeroScores == [h \in OSNames |-> 0]

\* undefined + weight
NaN == "NaN"

\* this.scores[target] += weight: an assignment creates the key it lacks
PlusAssign(s, target, weight) ==
    [k \in DOMAIN s \cup {target} |->
        IF k # target THEN s[k]
        ELSE IF k \in DOMAIN s THEN s[k] + weight ELSE NaN]

\* A plausible slip: the guard of addScore left out.
hasEveryProperty(s, target) == TRUE

\* this.scores.hasOwnProperty(target)
hasOwnProperty(s, target) == target \in DOMAIN s

RECURSIVE addScoreFrom(_, _, _, _)
\* targets.forEach from index i on
addScoreFrom(s, targets, weight, i) ==
    IF i > Len(targets) THEN s
    ELSE LET target == targets[i]
             s1 == IF hasOwnProperty(s, target)
                   THEN PlusAssign(s, target, weight)
                   ELSE s
         IN  addScoreFrom(s1, targets, weight, i + 1)

\* A plausible slip: assignment instead of accumulation.
addScoreAssign(s, targets, weight) ==
    [h \in DOMAIN s |-> IF \E i \in 1..Len(targets) : targets[i] = h
                        THEN weight ELSE s[h]]

\* A plausible slip: scores clamped to a ceiling.
addScoreCapped(s, targets, weight) ==
    [h \in DOMAIN s |-> IF \E i \in 1..Len(targets) : targets[i] = h
                        THEN (IF s[h] + weight > 10 THEN 10 ELSE s[h] + weight)
                        ELSE s[h]]

addScore(s, targets, weight) == addScoreFrom(s, targets, weight, 1)

RECURSIVE MaxOf(_, _)
MaxOf(vals, i) ==
    IF i > Len(vals) THEN 0 - 1000000
    ELSE LET rest == MaxOf(vals, i + 1)
         IN  IF vals[i] >= rest THEN vals[i] ELSE rest

RECURSIVE SumOf(_, _)
SumOf(vals, i) == IF i > Len(vals) THEN 0 ELSE vals[i] + SumOf(vals, i + 1)

\* Object.values(this.scores)
ObjectValues(s) == [i \in 1..Len(OSOrder) |-> s[OSOrder[i]]]

\* Math.max(...Object.values(this.scores))
maxScore(s) == MaxOf(ObjectValues(s), 1)

\* Object.values(this.scores).reduce((a, b) => a + b, 0)
totalScore(s) == SumOf(ObjectValues(s), 1)

\* A plausible slip: the last entry with the maximum instead of the first.
findLastTop(s) ==
    LET m == maxScore(s)
        hit == {i \in 1..Len(OSOrder) : s[OSOrder[i]] = m}
    IN  OSOrder[CHOOSE i \in hit : \A j \in hit : j <= i]

\* Object.entries(this.scores).find(([_, score]) => score === maxScore)[0]
findTop(s) ==
    LET m == maxScore(s)
        hit == {i \in 1..Len(OSOrder) : s[OSOrder[i]] = m}
    IN  OSOrder[CHOOSE i \in hit : \A j \in hit : i <= j]

\* ------------------------------------------- IEEE-754 binary64 arithmetic
\* A positive double is [hi, mid, lo, e]: its 53-bit significand is
\* M = hi * 2^36 + mid * 2^18 + lo with 2^16 <= hi < 2^17 and mid, lo < 2^18,
\* and its value is M * 2^(e - 53).  Operands stay below 2^12, so every
\* intermediate fits the 32-bit integers of TLC.
Limb == 262144

RECURSIVE Pow2(_)
Pow2(n) == IF n = 0 THEN 1 ELSE 2 * Pow2(n - 1)

RECURSIVE BitLen(_)
\* number of binary digits of n
BitLen(n) == IF n = 0 THEN 0 ELSE 1 + BitLen(n \div 2)

RECURSIVE LeadingZeros(_, _)
\* number of zero bits of r/t (0 < r < t) before its first binary 1
LeadingZeros(r, t) == IF 2 * r >= t THEN 0 ELSE 1 + LeadingZeros(2 * r, t)

\* Round to nearest, ties to even: the significand (hi, mid, lo) was cut
\* from an exact value whose next bit is guard, with sticky telling of any
\* nonzero bit after that.
RoundToDouble(hi, mid, lo, guard, sticky, e) ==
    LET up == guard = 1 /\ (sticky \/ (lo % 2) = 1)
        lo1 == IF up THEN lo + 1 ELSE lo
        mid1 == mid + lo1 \div Limb
        hi1 == hi + mid1 \div Limb
    IN  IF hi1 = Pow2(17)
        THEN [hi |-> Pow2(16), mid |-> 0, lo |-> 0, e |-> e + 1]
        ELSE [hi |-> hi1, mid |-> mid1 % Limb, lo |-> lo1 % Limb, e |-> e]

\* the double x / y for integers 0 < x <= y
DoubleDiv(x, y) ==
    IF x = y THEN [hi |-> Pow2(16), mid |-> 0, lo |-> 0, e |-> 1]
    ELSE LET z == LeadingZeros(x, y)
             r0 == x * Pow2(z)
             c1 == (r0 * Limb) \div y
             r1 == (r0 * Limb) % y
             c2 == (r1 * Limb) \div y
             r2 == (r1 * Limb) % y
             c3 == (r2 * Limb) \div y
             r3 == (r2 * Limb) % y
         IN  \* (c1, c2, c3) are the first 54 bits of the quotient
             RoundToDouble(c1 \div 2,
                           (c1 % 2) * Pow2(17) + c2 \div 2,
                           (c2 % 2) * Pow2(17) + c3 \div 2,
                           c3 % 2, r3 # 0, 0 - z)

\* the double d * k for an integer 0 < k < 2^13
DoubleMul(d, k) ==
    LET v3 == d.lo * k
        v2 == d.mid * k + v3 \div Limb
        v1 == d.hi * k + v2 \div Limb
        o2 == v2 % Limb
        o3 == v3 % Limb
        drop == BitLen(v1) - 17
        cut == Pow2(drop)
        keep == Pow2(18 - drop)
    IN  \* the exact product is (v1, o2, o3); its last drop bits are cut
        IF drop = 0 THEN [hi |-> v1, mid |-> o2, lo |-> o3, e |-> d.e]
        ELSE RoundToDouble(v1 \div cut,
                           (v1 % cut) * keep + o2 \div cut,
                           (o2 % cut) * keep + o3 \div cut,
                           (o3 \div Pow2(drop - 1)) % 2,
                           (o3 % Pow2(drop - 1)) # 0,
                           d.e + drop)

\* A plausible slip: Math.floor (or a bitwise | 0) instead of Math.round.
MathTrunc(d) == IF d.e < 0 THEN 0 ELSE d.hi \div Pow2(17 - d.e)

\* Math.round(d): nearest integer, halves towards +Infinity (d.e <= 16)
MathRound(d) ==
    IF d.e < 0 THEN 0
    ELSE (d.hi \div Pow2(17 - d.e)) + ((d.hi \div Pow2(16 - d.e)) % 2)

\* round(100 * a / b) in exact arithmetic, halves up
ExactPercent(x, y) == (200 * x + y) \div (2 * y)

\* Math.round((maxScore / totalScore) * 100)
roundedShare(x, y) ==
    CHOOSE r \in {MathRound(p) : p \in {DoubleMul(q, 100) : q \in {DoubleDiv(x, y)}}} : TRUE

getTopOS(s) ==
    CHOOSE r \in
        {IF m = 0 \/ t = 0
         THEN [os |-> Unknown, confidence |-> 0]
         ELSE [os |-> findTop(s), confidence |-> roundedShare(m, t)] :
            m \in {maxScore(s)}, t \in {totalScore(s)}} : TRUE

\* { ...this.scores }
getAllScores(s) == s

\* The share of one hypothesis, by the guard and the arithmetic that getTopOS
\* uses for the top one (0 / totalScore is 0, and rounds to 0).  The code
\* has no such method: it reports a confidence for the top hypothesis only.
confidenceOf(s, h) ==
    IF totalScore(s) = 0 \/ s[h] = 0 THEN 0
    ELSE roundedShare(s[h], totalScore(s))

\* ------------------------------------------------------ host environment
\* What the browser answers to the probes of the detector.  It is fixed for
\* the lifetime of the page.
ProbeOrder == <<"hevc", "vp9", "av1", "hdr">>

Blank ==
    [matchMedia |-> TRUE, touchPoints |-> 0, coarse |-> FALSE,
     cssSupports |-> TRUE, webkitTouchCallout |-> FALSE,
     webkitOverflowScrolling |-> FALSE, applePay |-> FALSE,
     safariPush |-> FALSE, relatedApps |-> FALSE,
     serial |-> FALSE, hid |-> FALSE, usb |-> FALSE, dpr |-> 1,
     getContext |-> "null", vendor |-> {}, renderer |-> {},
     ndefReader |-> "absent", navigatorNfc |-> FALSE,
     mediaCapabilities |-> FALSE,
     decodingInfo |-> [p \in {"hevc", "vp9", "av1", "hdr"} |-> "unsupported"],
     userAgent |-> {}, iosVersion |-> 0]

AndroidChrome ==
    [Blank EXCEPT !.touchPoints = 5, !.coarse = TRUE, !.relatedApps = TRUE,
                  !.dpr = 3, !.getContext = "context",
                  !.vendor = {"qualcomm"}, !.renderer = {"adreno"},
                  !.ndefReader = "constructs", !.mediaCapabilities = TRUE,
                  !.decodingInfo = [@ EXCEPT !["vp9"] = "supported",
                                             !["av1"] = "supported"],
                  !.userAgent = {"linux", "android"}]

WindowsChrome ==
    [Blank EXCEPT !.serial = TRUE, !.hid = TRUE, !.usb = TRUE,
                  !.getContext = "context", !.vendor = {"google", "nvidia"},
                  !.renderer = {"angle", "nvidia", "geforce", "direct3d11"},
                  !.mediaCapabilities = TRUE,
                  !.decodingInfo = [@ EXCEPT !["vp9"] = "supported",
                                             !["av1"] = "supported"],
                  !.userAgent = {"windows nt"}]

MacSafari ==
    [Blank EXCEPT !.applePay = TRUE, !.safariPush = TRUE, !.dpr = 2,
                  !.getContext = "context", !.vendor = {"apple"},
                  !.renderer = {"apple", "gpu"}, !.mediaCapabilities = TRUE,
                  !.decodingInfo = [@ EXCEPT !["hevc"] = "supported",
                                             !["vp9"] = "supported",
                                             !["hdr"] = "supported"],
                  !.userAgent = {"mac os x"}]

MacChrome ==
    [Blank EXCEPT !.serial = TRUE, !.hid = TRUE, !.usb = TRUE, !.dpr = 2,
                  !.getContext = "context", !.vendor = {"google", "apple"},
                  !.renderer = {"angle", "apple", "metal"},
                  !.mediaCapabilities = TRUE,
                  !.decodingInfo = [@ EXCEPT !["hevc"] = "supported",
                                             !["vp9"] = "supported"],
                  !.userAgent = {"mac os x"}]

IPhoneSafari ==
    [Blank EXCEPT !.touchPoints = 5, !.coarse = TRUE,
                  !.webkitTouchCallout = TRUE, !.applePay = TRUE, !.dpr = 3,
                  !.getContext = "context", !.vendor = {"apple"},
                  !.renderer = {"apple", "gpu"}, !.mediaCapabilities = TRUE,
                  !.decodingInfo = [@ EXCEPT !["hevc"] = "supported"],
                  !.userAgent = {"iphone", "mac os x"}, !.iosVersion = 17]

IPadSafari ==
    [Blank EXCEPT !.touchPoints = 5, !.coarse = TRUE,
                  !.webkitTouchCallout = TRUE,
                  !.webkitOverflowScrolling = TRUE, !.dpr = 2,
                  !.getContext = "context", !.vendor = {"apple"},
                  !.renderer = {"apple", "gpu"},
                  !.userAgent = {"ipad", "mac os x"}, !.iosVersion = 10]

LinuxFirefox ==
    [Blank EXCEPT !.hid = TRUE, !.getContext = "context", !.vendor = {"amd"},
                  !.renderer = {"amd", "radeon"}, !.mediaCapabilities = TRUE,
                  !.decodingInfo = [@ EXCEPT !["vp9"] = "supported"],
                  !.userAgent = {"linux"}]

Devices ==
    {Blank, AndroidChrome, WindowsChrome, MacSafari, MacChrome, IPhoneSafari,
     IPadSafari, LinuxFirefox}

Faults ==
    {"none", "matchMedia", "CSS.supports", "getContext", "NDEFReader",
     "rejects", "hevc never", "hdr never"}

\* the device d with one host API missing, throwing or not answering
WithFault(d, f) ==
    CASE f = "none" -> d
      [] f = "matchMedia" -> [d EXCEPT !.matchMedia = FALSE]
      [] f = "CSS.supports" -> [d EXCEPT !.cssSupports = FALSE]
      [] f = "getContext" -> [d EXCEPT !.getContext = "throws"]
      [] f = "NDEFReader" -> [d EXCEPT !.ndefReader = "throws"]
      [] f = "rejects" ->
            [d EXCEPT !.mediaCapabilities = TRUE,
                      !.decodingInfo = [@ EXCEPT !["hevc"] = "rejects"]]
      [] f = "hevc never" ->
            [d EXCEPT !.mediaCapabilities = TRUE,
                      !.decodingInfo = [@ EXCEPT !["hevc"] = "never"]]
      [] f = "hdr never" ->
            [d EXCEPT !.mediaCapabilities = TRUE,
                      !.decodingInfo = [@ EXCEPT !["hdr"] = "never"]]

\* every device as it is, the bare host with each fault, and three devices
\* with the fault that takes one of their signals away
Environments ==
    {WithFault(d, "none") : d \in Devices}
        \cup {WithFault(Blank, f) : f \in Faults}
        \cup {WithFault(AndroidChrome, "NDEFReader"),
              WithFault(WindowsChrome, "getContext"),
              WithFault(MacSafari, "rejects")}

\* ------------------------------------------------------------------ state
VARIABLES
    env,          \* the host environment (navigator, window, document, ...)
    scores,       \* engine.scoreSystem.scores
    trace,        \* the children of the #steps list, in document order
    traceBase,    \* the scores when #steps was last emptied
    summary,      \* the content of #summary
    scoreBoard,   \* the scores last drawn into #scoreBoard
    isDetecting,  \* app.isDetecting
    initPc,       \* where app.init() stands
    calls,        \* the startDetection invocations made so far
    queue,        \* the microtask queue: calls whose continuation is ready
    script        \* the task that made the last invocation is still running

vars ==
    <<env, scores, trace, traceBase, summary, scoreBoard, isDetecting,
      initPc, calls, queue, script>>

\* ------------------------------------------------------------ utils/dom.js
\* $('#steps').appendChild(li)
addStep(tr, ok, title, weight, targets) ==
    Append(tr, [ok |-> ok, title |-> title, weight |-> weight,
                targets |-> targets])

updateConfidence(os, confidence) ==
    [kind |-> "result", os |-> os, confidence |-> confidence]

updateScoreBoard(s) == [drawn |-> TRUE, scores |-> s]

\* ------------------------------------------------- DeviceDetectionEngine
\* The part of the state one step of a run reads and writes: the ledger, the
\* step list, the number of addScore calls of the run, and whether the step
\* threw.
Scored(L, targets, weight) ==
    [L EXCEPT !.scores = addScore(@, targets, weight), !.fired = @ + 1]

Stepped(L, title, weight, targets) ==
    [L EXCEPT !.trace = addStep(@, TRUE, title, weight, targets)]

Threw(L) == [L EXCEPT !.threw = TRUE]

collectBasicSignals(L) ==
    IF ~env.matchMedia THEN Threw(L)
    ELSE IF env.touchPoints > 0 \/ env.coarse
         THEN Stepped(Scored(L, <<"iOS", "iPadOS", "Android">>, 2),
                      "touch", 2, <<"iOS", "iPadOS", "Android">>)
         ELSE L

collectAppleSignals(L) ==
    IF ~env.cssSupports \/ ~env.matchMedia THEN Threw(L)
    ELSE LET L1 == IF env.applePay
                   THEN Stepped(Scored(L, <<"iOS", "iPadOS", "macOS">>, 8),
                                "Apple Pay", 8, <<"iOS", "iPadOS", "macOS">>)
                   ELSE L
             L2 == IF env.webkitTouchCallout \/ env.webkitOverflowScrolling
                   THEN Stepped(Scored(L1, <<"iOS", "iPadOS">>, 4),
                                "WebKit CSS", 4, <<"iOS", "iPadOS">>)
                   ELSE L1
         IN  IF env.safariPush
             THEN Stepped(Scored(L2, <<"macOS">>, 6),
                          "Safari push", 6, <<"macOS">>)
             ELSE L2

collectAndroidSignals(L) ==
    IF env.relatedApps
    THEN Stepped(Scored(L, <<"Android">>, 5), "Related Apps", 5, <<"Android">>)
    ELSE L

collectDesktopSignals(L) ==
    LET desktopAPIs == (IF env.serial THEN 1 ELSE 0) + (IF env.hid THEN 1 ELSE 0)
                       + (IF env.usb THEN 1 ELSE 0)
    IN  IF desktopAPIs > 0
        THEN Stepped(Scored(L, <<"Windows", "macOS", "Linux">>, desktopAPIs * 2),
                     "desktop APIs", desktopAPIs * 2,
                     <<"Windows", "macOS", "Linux">>)
        ELSE L

collectDisplaySignals(L) ==
    IF env.dpr >= 2
    THEN Stepped(Scored(L, <<"macOS", "iOS", "iPadOS">>, 3),
                 "Retina", 3, <<"macOS", "iOS", "iPadOS">>)
    ELSE L

\* webgl.js: null when no context can be had or anything throws
getWebGLInfo ==
    IF env.getContext = "context"
    THEN [present |-> TRUE, vendor |-> env.vendor, renderer |-> env.renderer]
    ELSE [present |-> FALSE, vendor |-> {}, renderer |-> {}]

containsApple(info) ==
    info.present /\ ({"apple", "metal"} \cap (info.vendor \cup info.renderer)) # {}

isAngleMetal(info) ==
    info.present /\ "angle" \in info.renderer /\ "metal" \in info.renderer

getGPUVendor(info) ==
    LET combined == info.vendor \cup info.renderer
    IN  IF ~info.present THEN "unknown"
        ELSE IF ({"nvidia", "geforce"} \cap combined) # {} THEN "nvidia"
        ELSE IF ({"amd", "radeon"} \cap combined) # {} THEN "amd"
        ELSE IF "intel" \in combined THEN "intel"
        ELSE IF ({"apple", "metal"} \cap combined) # {} THEN "apple"
        ELSE "unknown"

performWebGLDetection(L) ==
    LET webglInfo == getWebGLInfo
        gpuVendor == getGPUVendor(webglInfo)
        L1 == IF containsApple(webglInfo)
              THEN Stepped(Scored(L, <<"macOS", "iOS", "iPadOS">>, 6),
                           "WebGL Apple", 6, <<"macOS", "iOS", "iPadOS">>)
              ELSE L
        L2 == IF isAngleMetal(webglInfo)
              THEN Stepped(Scored(L1, <<"macOS">>, 4),
                           "ANGLE Metal", 4, <<"macOS">>)
              ELSE L1
        L3 == CASE gpuVendor = "apple" ->
                     Scored(L2, <<"macOS", "iOS", "iPadOS">>, 5)
                [] gpuVendor = "intel" ->
                     Scored(L2, <<"Windows", "macOS", "Linux">>, 3)
                [] gpuVendor = "nvidia" -> Scored(L2, <<"Windows", "Linux">>, 4)
                [] gpuVendor = "amd" -> Scored(L2, <<"Windows", "Linux">>, 3)
                [] OTHER -> L2
    IN  IF ~webglInfo.present THEN L
        ELSE IF gpuVendor # "unknown"
             THEN Stepped(L3, "GPU vendor",
                          IF gpuVendor = "apple" THEN 5 ELSE 3,
                          IF gpuVendor = "apple"
                          THEN <<"macOS", "iOS", "iPadOS">>
                          ELSE IF gpuVendor = "nvidia" \/ gpuVendor = "amd"
                               THEN <<"Windows", "Linux">>
                               ELSE <<"Windows", "macOS", "Linux">>)
             ELSE L3

\* nfc.js: a throwing NDEFReader constructor only leaves canScan unset
checkNFCCapabilities ==
    [hasAPI |-> env.ndefReader # "absent" \/ env.navigatorNfc,
     canScan |-> env.ndefReader = "constructs"]

hasNFCSupport ==
    IF "android" \in env.userAgent THEN TRUE
    ELSE IF ({"iphone", "ipad"} \cap env.userAgent) # {} /\ env.iosVersion > 0
         THEN env.iosVersion >= 11
         ELSE env.ndefReader # "absent" \/ env.navigatorNfc

performNFCDetection(L) ==
    LET nfcResult == checkNFCCapabilities
        L1 == IF nfcResult.hasAPI
              THEN Stepped(Scored(L, <<"Android">>, 4), "NFC API", 4, <<"Android">>)
              ELSE L
    IN  IF hasNFCSupport
        THEN IF "android" \in env.userAgent THEN Scored(L1, <<"Android">>, 2)
             ELSE IF "iphone" \in env.userAgent THEN Scored(L1, <<"iOS">>, 2)
             ELSE L1
        ELSE L1

\* media.js: what checkMediaCapabilities resolves with once all its probes
\* have settled: null without the API, false for a rejected probe
checkMediaCapabilities ==
    [p \in {"hevc", "vp9", "av1", "hdr"} |->
        IF ~env.mediaCapabilities THEN "null"
        ELSE IF env.decodingInfo[p] = "supported" THEN "true" ELSE "false"]

\* performMediaDetection after its await
scoreMediaCapabilities(L) ==
    LET mediaCapabilities == checkMediaCapabilities
        L1 == IF mediaCapabilities["hevc"] = "true"
              THEN Stepped(Scored(L, <<"macOS", "iOS", "iPadOS">>, 4),
                           "HEVC", 4, <<"macOS", "iOS", "iPadOS">>)
              ELSE L
    IN  IF mediaCapabilities["vp9"] = "true"
        THEN Stepped(Scored(L1, <<"Android", "Windows", "Linux">>, 2),
                     "VP9", 2, <<"Android", "Windows", "Linux">>)
        ELSE L1

performUserAgentAnalysis(L) ==
    LET userAgent == env.userAgent
        L1 == IF ({"mac os x", "macos"} \cap userAgent) # {}
              THEN Stepped(Scored(L, <<"macOS">>, 6), "macOS UA", 6, <<"macOS">>)
              ELSE L
        L2 == IF "windows nt" \in userAgent
              THEN Stepped(Scored(L1, <<"Windows">>, 6),
                           "Windows UA", 6, <<"Windows">>)
              ELSE L1
        L3 == IF "linux" \in userAgent /\ "android" \notin userAgent
              THEN Stepped(Scored(L2, <<"Linux">>, 6), "Linux UA", 6, <<"Linux">>)
              ELSE L2
        L4 == IF ({"iphone", "ipod"} \cap userAgent) # {}
              THEN Stepped(Scored(L3, <<"iOS">>, 8), "iOS UA", 8, <<"iOS">>)
              ELSE L3
        L5 == IF "ipad" \in userAgent
              THEN Stepped(Scored(L4, <<"iPadOS">>, 8), "iPadOS UA", 8, <<"iPadOS">>)
              ELSE L4
    IN  IF "android" \in userAgent
        THEN Stepped(Scored(L5, <<"Android">>, 8), "Android UA", 8, <<"Android">>)
        ELSE L5

\* addStep without weight and targets
addSignalSnapshot(L) == [L EXCEPT !.trace = addStep(@, TRUE, "snapshot", 0, <<>>)]

\* ----------------------------------------------- runs on the event loop
\* A call is one invocation of startDetection: through the application
\* (init, restart) or on the engine object itself, which the application
\* publishes as window.HCFDetector.app.engine.  pc names the step the call
\* runs next; "epilogue" is the continuation of the application after its
\* await, "done" the end.  base, fired and busy record how the call began.
NoResult == [os |-> "none", confidence |-> 0]

EngineInFlight(c) == c.pc \notin {"epilogue", "done"}

EngineBusy == \E j \in DOMAIN calls : EngineInFlight(calls[j])

CountVia(via) == Cardinality({j \in DOMAIN calls : calls[j].via = via})

Ledger(base, n) == [scores |-> base, trace |-> trace, fired |-> n, threw |-> FALSE]

\* the promise of engine.startDetection rejects at a step
Rejected(c, step) ==
    [c EXCEPT !.pc = IF c.via = "engine" THEN "done" ELSE "epilogue",
              !.outcome = "error", !.threwAt = step]

\* a task may invoke when the microtask queue has drained, or when it is the
\* script that made the previous invocation and has not yet returned
MayInvoke == queue = <<>> \/ script

\* engine.startDetection up to its first await: collectBasicSignals
EngineStart(via, tr) ==
    LET L == collectBasicSignals([scores |-> scores, trace |-> tr,
                                  fired |-> 0, threw |-> FALSE])
        c == [via |-> via, pc |-> "apple", busy |-> EngineBusy,
              base |-> scores, fired |-> L.fired, threwAt |-> "none",
              outcome |-> "pending", result |-> NoResult]
        c1 == IF L.threw THEN Rejected(c, "basic") ELSE c
    IN  /\ scores' = L.scores
        /\ trace' = L.trace
        /\ calls' = Append(calls, c1)
        /\ queue' = IF c1.pc = "done" THEN queue
                    ELSE Append(queue, Len(calls) + 1)

\* app.startDetection up to its await
AppStartDetection(via) ==
    IF isDetecting
    THEN /\ calls' = Append(calls,
                       [via |-> via, pc |-> "done", busy |-> EngineBusy,
                        base |-> scores, fired |-> 0, threwAt |-> "none",
                        outcome |-> "ignored", result |-> NoResult])
         /\ UNCHANGED <<scores, trace, traceBase, isDetecting, queue>>
    ELSE /\ isDetecting' = TRUE
         /\ traceBase' = scores
         /\ EngineStart(via, <<>>)

\* app.init() after DOMContentLoaded: showLoadingState, then the timer
InitShowLoading ==
    /\ initPc = "start"
    /\ queue = <<>>
    /\ initPc' = "timer"
    /\ summary' = [kind |-> "loading", os |-> "none", confidence |-> 0]
    /\ script' = FALSE
    /\ UNCHANGED <<env, scores, trace, traceBase, scoreBoard, isDetecting,
                   calls, queue>>

\* app.init() after its timer
InitStartDetection ==
    /\ initPc = "timer"
    /\ queue = <<>>
    /\ initPc' = "called"
    /\ AppStartDetection("init")
    /\ script' = FALSE
    /\ UNCHANGED <<env, summary, scoreBoard>>

\* window.HCFDetector.restart()
RestartDetection ==
    /\ MayInvoke
    /\ CountVia("restart") + CountVia("engine") < MaxInvocations
    /\ AppStartDetection("restart")
    /\ script' = (queue' # <<>>)
    /\ UNCHANGED <<env, summary, scoreBoard, initPc>>

\* window.HCFDetector.app.engine.startDetection()
EngineStartDetection ==
    /\ MayInvoke
    /\ CountVia("restart") + CountVia("engine") < MaxInvocations
    /\ EngineStart("engine", trace)
    /\ script' = (queue' # <<>>)
    /\ UNCHANGED <<env, traceBase, summary, scoreBoard, isDetecting, initPc>>

\* the continuation of call i runs one step that does not suspend
SyncStep(i, step, L, next) ==
    /\ queue # <<>>
    /\ Head(queue) = i
    /\ calls[i].pc = step
    /\ scores' = L.scores
    /\ trace' = L.trace
    /\ calls' = [calls EXCEPT ![i] =
                    IF L.threw THEN Rejected([@ EXCEPT !.fired = L.fired], step)
                    ELSE [@ EXCEPT !.pc = next, !.fired = L.fired]]
    /\ queue' = IF calls'[i].pc = "done" THEN Tail(queue)
                ELSE Append(Tail(queue), i)
    /\ script' = FALSE
    /\ UNCHANGED <<env, traceBase, summary, scoreBoard, isDetecting, initPc>>

RunAppleSignals ==
    \E i \in DOMAIN calls :
        SyncStep(i, "apple", collectAppleSignals(Ledger(scores, calls[i].fired)), "android")

RunAndroidSignals ==
    \E i \in DOMAIN calls :
        SyncStep(i, "android", collectAndroidSignals(Ledger(scores, calls[i].fired)), "desktop")

RunDesktopSignals ==
    \E i \in DOMAIN calls :
        SyncStep(i, "desktop", collectDesktopSignals(Ledger(scores, calls[i].fired)), "display")

RunDisplaySignals ==
    \E i \in DOMAIN calls :
        SyncStep(i, "display", collectDisplaySignals(Ledger(scores, calls[i].fired)), "webgl")

RunWebGLDetection ==
    \E i \in DOMAIN calls :
        SyncStep(i, "webgl", performWebGLDetection(Ledger(scores, calls[i].fired)), "nfc")

RunNFCDetection ==
    \E i \in DOMAIN calls :
        SyncStep(i, "nfc", performNFCDetection(Ledger(scores, calls[i].fired)), "media")

\* performMediaDetection up to the first decodingInfo that is awaited
RunMediaDetection ==
    \E i \in DOMAIN calls :
        /\ queue # <<>>
        /\ Head(queue) = i
        /\ calls[i].pc = "media"
        /\ calls' = [calls EXCEPT ![i].pc =
                        IF env.mediaCapabilities THEN "hevc" ELSE "mediaScore"]
        /\ queue' = IF env.mediaCapabilities THEN Tail(queue)
                    ELSE Append(Tail(queue), i)
        /\ script' = FALSE
        /\ UNCHANGED <<env, scores, trace, traceBase, summary, scoreBoard,
                       isDetecting, initPc>>

\* the host settles the decodingInfo promise call i awaits (fulfilled or
\* rejected); the next probe is issued, or checkMediaCapabilities returns
DecodingInfoSettles ==
    \E i \in DOMAIN calls :
        /\ queue = <<>>
        /\ \E k \in 1..Len(ProbeOrder) :
              /\ calls[i].pc = ProbeOrder[k]
              /\ env.decodingInfo[ProbeOrder[k]] # "never"
              /\ calls' = [calls EXCEPT ![i].pc =
                              IF k < Len(ProbeOrder) THEN ProbeOrder[k + 1]
                              ELSE "mediaScore"]
              /\ queue' = IF k < Len(ProbeOrder) THEN <<>> ELSE <<i>>
        /\ script' = FALSE
        /\ UNCHANGED <<env, scores, trace, traceBase, summary, scoreBoard,
                       isDetecting, initPc>>

RunMediaScoring ==
    \E i \in DOMAIN calls :
        SyncStep(i, "mediaScore", scoreMediaCapabilities(Ledger(scores, calls[i].fired)), "ua")

\* A plausible slip: performMediaDetection called without await, so that the
\* rest of startDetection runs while the media probes are still pending.
FinishWithoutMedia ==
    \E i \in DOMAIN calls :
        /\ queue # <<>>
        /\ Head(queue) = i
        /\ calls[i].pc = "media"
        /\ \E L \in {performUserAgentAnalysis(Ledger(scores, calls[i].fired))} :
           \E result \in {getTopOS(L.scores)} :
               /\ scores' = L.scores
               /\ summary' = updateConfidence(result.os, result.confidence)
               /\ scoreBoard' = updateScoreBoard(getAllScores(L.scores))
               /\ trace' = addSignalSnapshot(L).trace
               /\ calls' = [calls EXCEPT ![i] =
                               [@ EXCEPT !.pc = IF calls[i].via = "engine"
                                                THEN "done" ELSE "epilogue",
                                         !.fired = L.fired,
                                         !.outcome = "result",
                                         !.result = result]]
        /\ queue' = IF calls[i].via = "engine" THEN Tail(queue)
                    ELSE Append(Tail(queue), i)
        /\ script' = FALSE
        /\ UNCHANGED <<env, traceBase, isDetecting, initPc>>

\* performUserAgentAnalysis and the rest of engine.startDetection
FinishDetection ==
    \E i \in DOMAIN calls :
        /\ queue # <<>>
        /\ Head(queue) = i
        /\ calls[i].pc = "ua"
        /\ \E L \in {performUserAgentAnalysis(Ledger(scores, calls[i].fired))} :
           \E result \in {getTopOS(L.scores)} :
               /\ scores' = L.scores
               /\ summary' = updateConfidence(result.os, result.confidence)
               /\ scoreBoard' = updateScoreBoard(getAllScores(L.scores))
               /\ trace' = addSignalSnapshot(L).trace
               /\ calls' = [calls EXCEPT ![i] =
                               [@ EXCEPT !.pc = IF calls[i].via = "engine"
                                                THEN "done" ELSE "epilogue",
                                         !.fired = L.fired,
                                         !.outcome = "result",
                                         !.result = result]]
        /\ queue' = IF calls[i].via = "engine" THEN Tail(queue)
                    ELSE Append(Tail(queue), i)
        /\ script' = FALSE
        /\ UNCHANGED <<env, traceBase, isDetecting, initPc>>

\* A plausible slip: the flag reset after the await inside try, with no
\* finally, so that a run that throws leaves it set.
AppEpilogueNoFinally ==
    \E i \in DOMAIN calls :
        /\ queue # <<>>
        /\ Head(queue) = i
        /\ calls[i].pc = "epilogue"
        /\ summary' = IF calls[i].outcome = "error"
                      THEN [kind |-> "error", os |-> "none", confidence |-> 0]
                      ELSE summary
        /\ isDetecting' = (calls[i].outcome = "error")
        /\ calls' = [calls EXCEPT ![i].pc = "done"]
        /\ queue' = Tail(queue)
        /\ script' = FALSE
        /\ UNCHANGED <<env, scores, trace, traceBase, scoreBoard, initPc>>

\* app.startDetection after its await: catch and finally
AppEpilogue ==
    \E i \in DOMAIN calls :
        /\ queue # <<>>
        /\ Head(queue) = i
        /\ calls[i].pc = "epilogue"
        /\ summary' = IF calls[i].outcome = "error"
                      THEN [kind |-> "error", os |-> "none", confidence |-> 0]
                      ELSE summary
        /\ isDetecting' = FALSE
        /\ calls' = [calls EXCEPT ![i].pc = "done"]
        /\ queue' = Tail(queue)
        /\ script' = FALSE
        /\ UNCHANGED <<env, scores, trace, traceBase, scoreBoard, initPc>>

Init ==
    /\ env \in Environments
    /\ scores = ZeroScores
    /\ trace = <<>>
    /\ traceBase = ZeroScores
    /\ summary = [kind |-> "initial", os |-> "none", confidence |-> 0]
    /\ scoreBoard = [drawn |-> FALSE, scores |-> ZeroScores]
    /\ isDetecting = FALSE
    /\ initPc = "start"
    /\ calls = <<>>
    /\ queue = <<>>
    /\ script = FALSE

Next ==
    \/ InitShowLoading
    \/ InitStartDetection
    \/ RestartDetection
    \/ EngineStartDetection
    \/ RunAppleSignals
    \/ RunAndroidSignals
    \/ RunDesktopSignals
    \/ RunDisplaySignals
    \/ RunWebGLDetection
    \/ RunNFCDetection
    \/ RunMediaDetection
    \/ DecodingInfoSettles
    \/ RunMediaScoring
    \/ FinishDetection
    \/ AppEpilogue

Spec == Init /\ [][Next]_vars

\* A fairness that the event loop provides: ready continuations run, the
\* timer of init fires, and a decodingInfo promise that the host settles is
\* delivered.  Invocations by the user are not forced.
Fairness ==
    /\ WF_vars(InitShowLoading)
    /\ WF_vars(InitStartDetection)
    /\ WF_vars(RunAppleSignals)
    /\ WF_vars(RunAndroidSignals)
    /\ WF_vars(RunDesktopSignals)
    /\ WF_vars(RunDisplaySignals)
    /\ WF_vars(RunWebGLDetection)
    /\ WF_vars(RunNFCDetection)
    /\ WF_vars(RunMediaDetection)
    /\ WF_vars(DecodingInfoSettles)
    /\ WF_vars(RunMediaScoring)
    /\ WF_vars(FinishDetection)
    /\ WF_vars(AppEpilogue)

FairSpec == Spec /\ Fairness

\* ------------------------------------------- the ledger on its own
\* A fresh OSScoreSystem that receives up to MaxObs addScore calls, in any
\* order, each recorded in the step list, and is then asked for getTopOS.
\* "ChromeOS" is a target that is not a key of the ledger.
LedgerTargets ==
    {<<"Windows">>, <<"Android">>, <<"iOS", "iPadOS", "Android">>,
     <<"Windows", "macOS", "Linux">>, <<"macOS", "ChromeOS">>}

LedgerInit ==
    /\ env = Blank
    /\ scores = ZeroScores
    /\ trace = <<>>
    /\ traceBase = ZeroScores
    /\ summary = [kind |-> "initial", os |-> "none", confidence |-> 0]
    /\ scoreBoard = [drawn |-> FALSE, scores |-> ZeroScores]
    /\ isDetecting = FALSE
    /\ initPc = "start"
    /\ calls = <<>>
    /\ queue = <<>>
    /\ script = FALSE

LedgerAddScore ==
    /\ ~scoreBoard.drawn
    /\ Len(trace) < MaxObs
    /\ \E targets \in LedgerTargets, weight \in 1..MaxWeight :
          /\ scores' = addScore(scores, targets, weight)
          /\ trace' = addStep(trace, TRUE, "observation", weight, targets)
    /\ UNCHANGED <<env, traceBase, summary, scoreBoard, isDetecting, initPc,
                   calls, queue, script>>

LedgerGetTopOS ==
    /\ ~scoreBoard.drawn
    /\ LET result == getTopOS(scores)
       IN  /\ summary' = updateConfidence(result.os, result.confidence)
           /\ scoreBoard' = updateScoreBoard(getAllScores(scores))
    /\ UNCHANGED <<env, scores, trace, traceBase, isDetecting, initPc, calls,
                   queue, script>>

LedgerNext == LedgerAddScore \/ LedgerGetTopOS

LedgerSpec == LedgerInit /\ [][LedgerNext]_vars

\* ------------------------------------------------------------ properties
\* the order in which the hypotheses are declared
EnumerationOrder == <<"macOS", "Windows", "Linux", "iOS", "iPadOS", "Android">>

Hypotheses == {"macOS", "Windows", "Linux", "iOS", "iPadOS", "Android"}

Targets(step, h) == \E k \in 1..Len(step.targets) : step.targets[k] = h

RECURSIVE TraceSum(_, _, _)
\* the sum of the weights of the first n step records that target h
TraceSum(tr, h, n) ==
    IF n = 0 THEN 0
    ELSE TraceSum(tr, h, n - 1) + (IF Targets(tr[n], h) THEN tr[n].weight ELSE 0)

Started(c) == c.outcome # "ignored"

Ended(c) == c.pc = "done"

Idle == calls # <<>> /\ \A i \in DOMAIN calls : ~EngineInFlight(calls[i])

\* the nine steps of engine.startDetection, in its order
StepOrder ==
    <<"basic", "apple", "android", "desktop", "display", "webgl", "nfc",
      "media", "ua">>

ApplyStep(name, L) ==
    CASE name = "basic" -> collectBasicSignals(L)
      [] name = "apple" -> collectAppleSignals(L)
      [] name = "android" -> collectAndroidSignals(L)
      [] name = "desktop" -> collectDesktopSignals(L)
      [] name = "display" -> collectDisplaySignals(L)
      [] name = "webgl" -> performWebGLDetection(L)
      [] name = "nfc" -> performNFCDetection(L)
      [] name = "media" -> scoreMediaCapabilities(L)
      [] name = "ua" -> performUserAgentAnalysis(L)

RECURSIVE RunSteps(_, _, _)
\* the steps from the k-th on, applied in order, those in omit left out
RunSteps(L, k, omit) ==
    IF k > Len(StepOrder) THEN L
    ELSE RunSteps(IF StepOrder[k] \in omit THEN L ELSE ApplyStep(StepOrder[k], L),
                  k + 1, omit)

\* the result of a run from ledger base in which the steps in omit are left out
ResultOmitting(base, omit) ==
    getTopOS(RunSteps([scores |-> base, trace |-> <<>>, fired |-> 0,
                       threw |-> FALSE], 1, omit).scores)

\* C1: whenever a run begins through the application (init, or restart
\* with no run in flight), every score of the ledger is 0.
C1_RunStartsFromZeroLedger ==
    \A i \in DOMAIN calls :
        (calls[i].via \in {"init", "restart"} /\ Started(calls[i]) /\ ~calls[i].busy)
            => calls[i].base = [h \in Hypotheses |-> 0]

\* C2: a run in which a step throws still ends with a result, and that
\* result is the one of the same run with the throwing step left out.
C2_FailingStepIsIsolated ==
    \A i \in DOMAIN calls :
        (Ended(calls[i]) /\ calls[i].threwAt # "none")
            => /\ calls[i].outcome = "result"
               /\ calls[i].result =
                      ResultOmitting(calls[i].base, {calls[i].threwAt})

\* C3: an invocation made while a run is in flight on the engine fails with
\* AlreadyRunningError, runs no step and adds nothing to the ledger.
C3_BusyEngineRefuses ==
    \A i \in DOMAIN calls :
        calls[i].busy
            => /\ calls[i].outcome = "AlreadyRunningError"
               /\ calls[i].pc = "done"
               /\ calls[i].fired = 0

InProgress == \E i \in DOMAIN calls : Started(calls[i]) /\ ~Ended(calls[i])

\* C4: every run that has started eventually completes: whenever some run
\* is in progress, a moment comes at which none is.
C4_EveryRunCompletes == InProgress ~> ~InProgress

\* C5: when no run is in flight, for each hypothesis the weights of the step
\* records that target it add up to what the ledger gained since the step
\* list was emptied.
C5_TraceMatchesLedger ==
    Idle => \A h \in Hypotheses :
                TraceSum(trace, h, Len(trace)) = scores[h] - traceBase[h]

\* C6: no addScore call ever lowers a score, every score stays a natural
\* number, and the keys of the ledger stay the six hypotheses.
C6_LedgerIsAdditive ==
    [][/\ DOMAIN scores' = Hypotheses
       /\ \A h \in Hypotheses : scores'[h] \in Nat /\ scores'[h] >= scores[h]]_vars

\* observations were applied, one of them with a target that is no key
C6_Witness ==
    /\ Len(trace) = MaxObs
    /\ Targets(trace[2], "ChromeOS")
    /\ scores["macOS"] > trace[2].weight
    /\ DOMAIN scores = Hypotheses

RECURSIVE ApplyAll(_, _)
\* the ledger after the first n of the observations obs, applied in order
ApplyAll(obs, n) ==
    IF n = 0 THEN [h \in Hypotheses |-> 0]
    ELSE addScore(ApplyAll(obs, n - 1), obs[n].targets, obs[n].weight)

Permuted(obs, p) == [i \in 1..Len(obs) |-> obs[p[i]]]

\* C7: whatever the order in which the observations of the step list are
\* applied to a fresh ledger, the scores are those of the ledger and the top
\* hypothesis and confidence are those that were reported.
C7_OrderIndependent ==
    scoreBoard.drawn =>
        \A p \in Permutations(1..Len(trace)) :
            \E s \in {ApplyAll(Permuted(trace, p), Len(trace))} :
            \E top \in {getTopOS(s)} :
                /\ s = scores
                /\ updateConfidence(top.os, top.confidence) = summary

\* three observations with different weights and overlapping targets were
\* applied and the result reported
C7_Witness ==
    /\ scoreBoard.drawn
    /\ Len(trace) = 3
    /\ trace[1].weight # trace[2].weight
    /\ trace[1].targets # trace[3].targets
    /\ \E h \in Hypotheses : Targets(trace[1], h) /\ Targets(trace[2], h)
    /\ summary.os \in Hypotheses

IsMaximal(h) == \A g \in Hypotheses : scores[g] <= scores[h]

Position(h) == CHOOSE k \in 1..Len(EnumerationOrder) : EnumerationOrder[k] = h

\* C8: with some score above 0, the reported hypothesis has the maximum
\* score, and no hypothesis declared before it has that score too.
C8_TopIsFirstMaximum ==
    (scoreBoard.drawn /\ \E h \in Hypotheses : scores[h] > 0)
        => /\ summary.os \in Hypotheses
           /\ IsMaximal(summary.os)
           /\ \A g \in Hypotheses :
                  IsMaximal(g) => Position(summary.os) <= Position(g)

\* Android scored first and ties with Windows for the maximum: Windows wins
C8_Witness ==
    /\ scoreBoard.drawn
    /\ Len(trace) >= 2
    /\ trace[1].targets = <<"Android">>
    /\ scores["Windows"] > 0
    /\ scores["Windows"] = scores["Android"]
    /\ IsMaximal("Windows")
    /\ summary.os = "Windows"

\* C9: a run in which nothing fired ends with the result unknown at
\* confidence 0, and getTopOS says unknown only of a ledger of zeros.
C9_NoEvidenceIsUnknown ==
    /\ \A i \in DOMAIN calls :
          (Started(calls[i]) /\ Ended(calls[i]) /\ calls[i].fired = 0)
              => /\ calls[i].outcome = "result"
                 /\ calls[i].result = [os |-> Unknown, confidence |-> 0]
    /\ getTopOS(scores).os = Unknown => \A h \in Hypotheses : scores[h] = 0

\* C10: the reported confidence is round(100 * top / total), halves up, an
\* integer in 0..100, and 0 when the total is 0.
C10_ConfidenceIsExactPercent ==
    summary.kind = "result" =>
        LET total == SumOf(ObjectValues(scoreBoard.scores), 1)
            top == CHOOSE v \in {scoreBoard.scores[h] : h \in Hypotheses} :
                       \A h \in Hypotheses : scoreBoard.scores[h] <= v
        IN  /\ summary.confidence \in 0..100
            /\ total = 0 => summary.confidence = 0
            /\ total > 0 => summary.confidence = ExactPercent(top, total)

RECURSIVE ConfidenceSum(_, _)
\* the sum of confidenceOf over the first n hypotheses
ConfidenceSum(s, n) ==
    IF n = 0 THEN 0
    ELSE ConfidenceSum(s, n - 1) + confidenceOf(s, EnumerationOrder[n])

LedgerTotal == SumOf(ObjectValues(scores), 1)

\* C11 as stated: with a total above 0 the confidences of the six
\* hypotheses add up to 99, 100 or 101, and with a total of 0 each is 0.
C11_SharesSumToHundred ==
    IF LedgerTotal > 0
    THEN ConfidenceSum(scores, Len(EnumerationOrder)) \in 99..101
    ELSE \A h \in Hypotheses : confidenceOf(scores, h) = 0

\* C11, amended: each of the six confidences is within one half of its
\* exact share, so with a total above 0 they add up to a number from 97 to
\* 103; with a total of 0 each is 0.
C11_SharesSumWithinThree ==
    IF LedgerTotal > 0
    THEN ConfidenceSum(scores, Len(EnumerationOrder)) \in 97..103
    ELSE \A h \in Hypotheses : confidenceOf(scores, h) = 0

\* six equal scores: six times 17
C11_Witness ==
    /\ LedgerTotal > 0
    /\ \A h \in Hypotheses : scores[h] = scores["macOS"]
    /\ ConfidenceSum(scores, Len(EnumerationOrder)) = 102

\* a step record whose weight is positive and whose targets are hypotheses
InContract(step) ==
    /\ step.weight > 0
    /\ \A k \in 1..Len(step.targets) : step.targets[k] \in Hypotheses

\* C12: an observation whose weight is not positive or that names a target
\* outside the six hypotheses changes no score at all.
C12_OutOfContractRejected ==
    [][(Len(trace') = Len(trace) + 1 /\ ~InContract(trace'[Len(trace')]))
          => scores' = scores]_vars

\* call i takes the step from position pc to position next
Steps(pc, next) ==
    \E i \in DOMAIN calls :
        i \in DOMAIN calls' /\ calls[i].pc = pc /\ calls'[i].pc = next

\* performNFCDetection where no NFC API is present: checkNFCCapabilities
\* reports no API, and hasNFCSupport goes by the user agent alone
NoNfcApiDetection(s) ==
    IF "android" \in env.userAgent THEN addScore(s, <<"Android">>, 2)
    ELSE IF /\ "iphone" \in env.userAgent
            /\ env.iosVersion > 0
            /\ env.iosVersion >= 11
         THEN addScore(s, <<"iOS">>, 2)
         ELSE s

\* C13: a source whose probe throws leaves the ledger as it would with no
\* signal observed: a throwing getContext adds nothing in the WebGL step, a
\* throwing NDEFReader constructor leaves the NFC step with what it adds
\* where there is no NFC API, a rejecting HEVC probe adds nothing for HEVC;
\* and the run goes on to the next step.
C13_ThrowingProbeIsNoEvidence ==
    [][/\ (env.getContext = "throws" /\ Steps("webgl", "nfc"))
            => scores' = scores
       /\ (env.ndefReader = "throws" /\ ~env.navigatorNfc /\ Steps("nfc", "media"))
            => scores' = NoNfcApiDetection(scores)
       /\ (env.decodingInfo["hevc"] = "rejects" /\ Steps("mediaScore", "ua"))
            => \A h \in {"macOS", "iOS", "iPadOS"} : scores'[h] = scores[h]
       /\ \A i \in DOMAIN calls :
              /\ (env.getContext = "throws" /\ calls[i].pc = "webgl")
                    => calls'[i].pc \in {"webgl", "nfc"}
              /\ (env.ndefReader = "throws" /\ calls[i].pc = "nfc")
                    => calls'[i].pc \in {"nfc", "media"}]_vars

\* what the desktop API signal adds on a host with one such API
DesktopApiWeight == 2

\* C14, for the desktop API signal: the step that collects it adds to each
\* hypothesis either nothing or the one weight of the signal, whatever the
\* number of desktop APIs that the host shows.
C14_WeightIsFixedPerKind ==
    [][Steps("desktop", "display")
          => \A h \in Hypotheses :
                 scores'[h] - scores[h] \in {0, DesktopApiWeight}]_vars

\* the positions of a run in the order of startDetection: a new run has done
\* the basic step, and the media step spans its four awaited probes
Succession ==
    {<<"apple", "android">>, <<"android", "desktop">>, <<"desktop", "display">>,
     <<"display", "webgl">>, <<"webgl", "nfc">>, <<"nfc", "media">>,
     <<"media", "hevc">>, <<"media", "mediaScore">>, <<"hevc", "vp9">>,
     <<"vp9", "av1">>, <<"av1", "hdr">>, <<"hdr", "mediaScore">>,
     <<"mediaScore", "ua">>}

\* run i ends its engine call in this step
Leaves(i) ==
    /\ i \in DOMAIN calls
    /\ EngineInFlight(calls[i])
    /\ ~EngineInFlight(calls'[i])

\* run i hands its result to the reporter in this step
Reports(i) == Leaves(i) /\ calls'[i].outcome = "result"

\* C15: a run takes its steps in the fixed order; it reports its result
\* only from the last step, the user agent analysis, with every earlier step
\* done; the result display and the score board change only when some run
\* reports, and then show the top of the ledger and the ledger as they are
\* after that last step; a run that has reported fires nothing more.
C15_ReportAfterAllSteps ==
    [][/\ \A i \in DOMAIN calls :
              /\ (EngineInFlight(calls'[i]) /\ calls'[i].pc # calls[i].pc)
                    => <<calls[i].pc, calls'[i].pc>> \in Succession
              /\ Reports(i) => calls[i].pc = "ua"
              /\ ~EngineInFlight(calls[i]) => calls'[i].fired = calls[i].fired
       /\ \A i \in DOMAIN calls' \ DOMAIN calls :
              EngineInFlight(calls'[i]) => calls'[i].pc = "apple"
       /\ (scoreBoard' # scoreBoard \/ (summary' # summary /\ summary'.kind = "result"))
              => \E i \in DOMAIN calls : Reports(i)
       /\ (\E i \in DOMAIN calls : Reports(i))
              => /\ scoreBoard' = [drawn |-> TRUE, scores |-> scores']
                 /\ summary'.kind = "result"
                 /\ summary'.os = getTopOS(scores').os
                 /\ summary'.confidence = getTopOS(scores').confidence]_vars

\* a run that awaited the media probes has reported what it fired
C15_Witness ==
    \E i \in DOMAIN calls :
        /\ calls[i].outcome = "result"
        /\ calls[i].fired >= 3
        /\ env.mediaCapabilities
        /\ scoreBoard = [drawn |-> TRUE, scores |-> scores]
        /\ summary.os = calls[i].result.os

\* the calls of engine.startDetection that the application made and whose
\* await has not yet resumed
AppInFlight ==
    {i \in DOMAIN calls :
        /\ calls[i].via \in {"init", "restart"}
        /\ Started(calls[i])
        /\ ~Ended(calls[i])}

\* the call of app.startDetection that this step makes, if any
AppCallMade(i) ==
    /\ i \in DOMAIN calls' \ DOMAIN calls
    /\ calls'[i].via \in {"init", "restart"}

\* C16: isDetecting is set exactly while a call of engine.startDetection made
\* by the application is in flight; there is at most one such call; a call
\* of app.startDetection made while the flag is set returns without calling
\* the engine, and one made while it is clear calls it; so the flag is clear
\* again once the run has ended, with a result or with an error.
C16_FlagTracksAppRun ==
    /\ [](/\ isDetecting <=> AppInFlight # {}
          /\ Cardinality(AppInFlight) <= 1)
    /\ [][\A i \in DOMAIN calls' :
              AppCallMade(i)
                  => IF isDetecting
                     THEN /\ ~Started(calls'[i])
                          /\ Ended(calls'[i])
                          /\ calls'[i].fired = 0
                          /\ scores' = scores
                          /\ trace' = trace
                          /\ queue' = queue
                     ELSE Started(calls'[i])]_vars

\* a call was turned away while a run was in flight, that run has ended with
\* an error, and the flag is clear
C16_Witness ==
    /\ ~isDetecting
    /\ \E i, j \in DOMAIN calls :
          /\ i < j
          /\ calls[i].via = "restart"
          /\ calls[i].outcome = "error"
          /\ Ended(calls[i])
          /\ calls[j].via = "restart"
          /\ ~Started(calls[j])

\* every call so far was made by the application
OnlyAppCalls == \A i \in DOMAIN calls : calls[i].via \in {"init", "restart"}

\* C17: with every run started by the application, each after the one
\* before it has ended, all the runs that return a result return the same
\* os and the same confidence.
C17_RepeatedRunsAgree ==
    OnlyAppCalls
        => \A i, j \in DOMAIN calls :
               (calls[i].outcome = "result" /\ calls[j].outcome = "result")
                   => /\ calls[i].result.os = calls[j].result.os
                      /\ calls[i].result.confidence = calls[j].result.confidence

\* three runs, each on the scores of the one before, with the same result
C17_Witness ==
    /\ OnlyAppCalls
    /\ \E i, j, k \in DOMAIN calls :
          /\ i < j /\ j < k
          /\ calls[i].outcome = "result"
          /\ calls[j].outcome = "result"
          /\ calls[k].outcome = "result"
          /\ calls[i].result.os \in Hypotheses
          /\ calls[k].base # calls[j].base
          /\ calls[k].result = calls[i].result

====
